---- MODULE Spec2Model ----
(***************************************************************************)
(* Model of torrent_search/wrapper/scraper.py: parse_result's length cut,  *)
(* scrape_torrents, extract_torrents and search_torrents' retry loop.      *)
(*                                                                         *)
(* A Python str is a sequence of symbols.  A symbol is one character       *)
(* ("\n", ";", " ", ...) or an opaque run of characters holding none of    *)
(* the separators (a field value, a source name, the text "No results").   *)
(***************************************************************************)
EXTENDS Integers, Sequences, FiniteSets, TLC

\* ------------------------------------------------------------------ bounds
MaxLen == 5          \* longest text handed to parse_result's length cut
MaxCharsArg == 4     \* largest max_chars argument tried on it
MaxRows == 3         \* most data rows, over all blocks, handed to extract_torrents alone
MaxBlocks == 2       \* most tagged blocks handed to extract_torrents alone
MaxRetriesArg == 3   \* largest max_retries argument of search_torrents

\* ------------------------------------------------------- program constants
DefaultMaxChars == 5000     \* parse_result(max_chars=5000)
TagLen == 10                \* source[10:], the length of "SOURCE -> "

NL == "\n"
SEMI == ";"
SP == " "
NoResults == "No results"
EmptyStr == << >>

\* WEBSITES, in dict (insertion) order
WEBSITES == << "thepiratebay.org", "nyaa.si", "sukebei.nyaa.si" >>

Registered == { WEBSITES[i] : i \in 1..Len(WEBSITES) }

\* ---------------------------------------------------------- str operations
Min(a, b) == IF a < b THEN a ELSE b

\* s[:n] for n >= 0
Prefix(s, n) == SubSeq(s, 1, Min(n, Len(s)))

\* s[n:] for n >= 0
Suffix(s, n) == SubSeq(s, n + 1, Len(s))

\* s.find(ch): the 1-based place of the first ch, 0 when there is none
Find(s, ch) ==
  IF \E i \in 1..Len(s) : s[i] = ch
    THEN CHOOSE i \in 1..Len(s) : s[i] = ch /\ \A j \in 1..(i - 1) : s[j] # ch
    ELSE 0

\* s.rfind(ch, 0, end): the 0-based index of the last ch among s[0:end], -1
\* when there is none
RFind(s, ch, end) ==
  LET I == { i \in 0..(Min(end, Len(s)) - 1) : s[i + 1] = ch }
  IN  IF I = {} THEN -1 ELSE CHOOSE i \in I : \A j \in I : j <= i

\* s.split(ch): always at least one part
RECURSIVE Split(_, _)
Split(s, ch) ==
  LET p == Find(s, ch)
  IN  IF p = 0 THEN << s >>
      ELSE << SubSeq(s, 1, p - 1) >> \o Split(Suffix(s, p), ch)

\* s.split(ch, 1): one part, or two when ch occurs
Split1(s, ch) ==
  LET p == Find(s, ch)
  IN  IF p = 0 THEN << s >> ELSE << SubSeq(s, 1, p - 1), Suffix(s, p) >>

\* s.splitlines(): no part for the empty string, none after a final "\n"
SplitLines(s) ==
  LET parts == Split(s, NL)
  IN  IF parts[Len(parts)] = EmptyStr THEN SubSeq(parts, 1, Len(parts) - 1)
      ELSE parts

\* sub in s
Contains(s, sub) ==
  \E i \in 1..(Len(s) - Len(sub) + 1) : SubSeq(s, i, i + Len(sub) - 1) = sub

\* str.strip(): white space off both ends
IsSpace(ch) == ch \in { SP, NL }

RECURSIVE LStrip(_)
LStrip(s) ==
  IF s # EmptyStr /\ IsSpace(Head(s)) THEN LStrip(Tail(s)) ELSE s

RECURSIVE RStrip(_)
RStrip(s) ==
  IF s # EmptyStr /\ IsSpace(s[Len(s)]) THEN RStrip(SubSeq(s, 1, Len(s) - 1))
  ELSE s

Strip(s) == RStrip(LStrip(s))

\* re.sub(r"\n{2,}", "\n", s)
RECURSIVE CollapseNewlines(_)
CollapseNewlines(s) ==
  IF Len(s) < 2 THEN s
  ELSE IF s[1] = NL /\ s[2] = NL THEN CollapseNewlines(Tail(s))
  ELSE << s[1] >> \o CollapseNewlines(Tail(s))

\* --------------------------------------------------------------- parse_result
\* The length cut of parse_result: text is the str the filter and replacer
\* passes left.
TruncateHard(text, max_chars) == Prefix(text, max_chars)

Truncate(text, max_chars) ==
  IF Len(text) > max_chars
    THEN LET safe_truncate_pos == RFind(text, NL, max_chars)
         IN  IF safe_truncate_pos = -1 THEN Prefix(text, max_chars)
             ELSE Prefix(text, safe_truncate_pos)
    ELSE text

parse_result(text, max_chars) ==
  Strip(CollapseNewlines(Truncate(text, max_chars)))

\* ------------------------------------------------------------ Torrent.format
\* The record schema (models.py): the fields a record cannot be built
\* without, and a field value the schema's validation refuses.
RequiredFields == { << "filename" >>, << "size" >> }

BadValue == "?"

SourceKey == << "source" >>

\* What Torrent.format(**torrent) does with a mapping: "ok", or the error it
\* raises.
FormatOutcome(torrent) ==
  IF ~ (RequiredFields \subseteq DOMAIN torrent) THEN "TypeError"
  ELSE IF \E k \in DOMAIN torrent : Contains(torrent[k], << BadValue >>)
    THEN "ValidationError"
  ELSE "ok"

\* ---------------------------------------------------------- extract_torrents
\* dict(zip(headers, fields)): zip stops at the shorter; a later duplicate key
\* wins
ZipDict(headers, fields) ==
  LET n == Min(Len(headers), Len(fields))
  IN  [ k \in { headers[i] : i \in 1..n } |->
          fields[CHOOSE i \in 1..n :
                   headers[i] = k /\ \A j \in (i + 1)..n : headers[j] # k] ]

\* d | {"source": source}
WithSource(d, source) ==
  [ k \in DOMAIN d \cup { SourceKey } |-> IF k = SourceKey THEN source ELSE d[k] ]

\* torrents.append(t)
AppendDeduplicated(torrents, t) ==
  IF \E i \in 1..Len(torrents) : torrents[i] = t THEN torrents
  ELSE Append(torrents, t)

AppendTorrent(torrents, t) == Append(torrents, t)

\* the try body of one row: the record appended, or the row dropped by
\* `except ValidationError` and `except Exception`
RowStep(torrents, headers, line, source) ==
  LET torrent == WithSource(ZipDict(headers, Split(line, SEMI)), source)
  IN  IF FormatOutcome(torrent) = "ok" THEN AppendTorrent(torrents, torrent)
      ELSE torrents

\* for line in data[1:]
RECURSIVE RowLoop(_, _, _, _)
RowLoop(torrents, headers, lines, source) ==
  IF lines = << >> THEN torrents
  ELSE RowLoop(RowStep(torrents, headers, Head(lines), source),
               headers, Tail(lines), source)

\* "No results" in content
SkipsBlock(content) == Contains(content, << NoResults >>)

\* One pass of `for text in texts`: the torrents after it, or the error the
\* pass raises outside the row's try.
BlockStep(torrents, text) ==
  LET parts == Split1(text, NL)
  IN  IF Len(parts) # 2
        THEN [ raised |-> TRUE, exc |-> "ValueError", torrents |-> torrents ]
      ELSE
        LET source == parts[1]
            content == parts[2]
        IN  IF SkipsBlock(content)
              THEN [ raised |-> FALSE, exc |-> "", torrents |-> torrents ]
            ELSE
              LET data == SplitLines(content)
              IN  IF data = << >>
                    THEN [ raised |-> TRUE, exc |-> "IndexError",
                           torrents |-> torrents ]
                  ELSE [ raised |-> FALSE, exc |-> "",
                         torrents |-> RowLoop(torrents, Split(data[1], SEMI),
                                              Tail(data), Suffix(source, TagLen)) ]

RECURSIVE BlockLoop(_, _)
BlockLoop(torrents, texts) ==
  IF texts = << >> THEN [ raised |-> FALSE, exc |-> "", torrents |-> torrents ]
  ELSE LET r == BlockStep(torrents, Head(texts))
       IN  IF r.raised THEN r ELSE BlockLoop(r.torrents, Tail(texts))

\* extract_torrents(texts): [raised |-> FALSE, torrents |-> the list returned]
\* or [raised |-> TRUE, exc |-> the error that leaves the call]
extract_torrents(texts) == BlockLoop(<< >>, texts)

\* ----------------------------------------------------------- scrape_torrents
\* "SOURCE -> "
TagPrefix == << "S", "O", "U", "R", "C", "E", " ", "-", ">", " " >>

\* f"SOURCE -> {source}\n{processed_text}"
Tagged(source, processed_text) ==
  TagPrefix \o << source >> \o << NL >> \o processed_text

\* ------------------------------------------------------------------- inputs
\* Fields join into a row with ";", rows into a table with "\n"
RECURSIVE Join(_, _)
Join(parts, sep) ==
  IF parts = << >> THEN EmptyStr
  ELSE IF Len(parts) = 1 THEN parts[1]
  ELSE parts[1] \o << sep >> \o Join(Tail(parts), sep)

Row(fields) == Join([ i \in 1..Len(fields) |-> << fields[i] >> ], SEMI)

HeaderLine == Row(<< "filename", "size" >>)

GoodRowA == Row(<< "a", "1" >>)
GoodRowB == Row(<< "b", "1" >>)
ShortRow == Row(<< "a" >>)
LongRow == Row(<< "b", "1", "1" >>)
InvalidRow == Row(<< "a", BadValue >>)
MarkerRow == Row(<< NoResults >>)

Rows == { GoodRowA, GoodRowB, ShortRow, LongRow, InvalidRow, MarkerRow }

Table(rows) == Join(<< HeaderLine >> \o rows, NL)

\* sequences over S of length at most n
RECURSIVE SeqsUpTo(_, _)
SeqsUpTo(S, n) ==
  IF n = 0 THEN { << >> }
  ELSE LET shorter == SeqsUpTo(S, n - 1)
       IN  shorter \cup { Append(q, x) : q \in shorter, x \in S }

\* the page a site answers "No results found" with
NoResultsPage == << NoResults, SP, "found" >>

\* what a search call's fetches may return, before the final collapse and strip
SearchPages ==
  { EmptyStr, << NL, NL >>, NoResultsPage \o << NL >>,
    Table(<< GoodRowA >>) \o << NL >>,
    Table(<< InvalidRow, GoodRowB >>) }

UnknownSite == "unknown-site"

\* the `sources` argument: None, or a collection of names
NoneArg == [ is_none |-> TRUE, items |-> {} ]

SourcesArgs ==
  { NoneArg } \cup
  { [ is_none |-> FALSE, items |-> S ] : S \in SUBSET Registered } \cup
  { [ is_none |-> FALSE, items |-> { UnknownSite } ],
    [ is_none |-> FALSE, items |-> { UnknownSite, WEBSITES[2] } ] }

Calls == { 1, 2 }

\* -------------------------------------------------------------------- state
VARIABLES
  pc,               \* per call: where the coroutine stands
  sources,          \* per call: the sources argument
  max_retries,      \* per call: the max_retries argument
  idx,              \* per call: place in `for source, data in WEBSITES.items()`
  results_list,     \* per call: scrape_torrents' results_list
  scraped_results,  \* per call: search_torrents' scraped_results
  retries,          \* per call: search_torrents' retries
  torrents,         \* per call: search_torrents' torrents, returned at "done"
  crawler_open,     \* the module-level crawler's session: started and not closed
  fetchLog,         \* history, per call: the crawler.arun calls and how each ended
  attemptLog,       \* history, per call: each extract_torrents call and its error
  texts,            \* extract_torrents called alone: its argument
  extracted,        \* extract_torrents called alone: its outcome
  text,             \* parse_result's cut called alone: the text
  max_chars,        \* parse_result's cut called alone: the limit
  parsed,           \* parse_result's cut called alone: [cut, result]
  fn_pc             \* the call made alone: "input", "returned" or "unused"

vars == << pc, sources, max_retries, idx, results_list, scraped_results, retries,
           torrents, crawler_open, fetchLog, attemptLog,
           texts, extracted, text, max_chars, parsed, fn_pc >>

searchVars == << pc, sources, max_retries, idx, results_list, scraped_results,
                 retries, torrents, crawler_open, fetchLog, attemptLog >>

fnVars == << texts, extracted, text, max_chars, parsed, fn_pc >>

NoOutcome == [ raised |-> FALSE, exc |-> "", torrents |-> << >> ]

NoParse == [ cut |-> EmptyStr, result |-> EmptyStr ]

InitSearch ==
  /\ pc = [ c \in Calls |-> "idle" ]
  /\ sources = [ c \in Calls |-> NoneArg ]
  /\ max_retries = [ c \in Calls |-> 1 ]
  /\ idx = [ c \in Calls |-> 1 ]
  /\ results_list = [ c \in Calls |-> << >> ]
  /\ scraped_results = [ c \in Calls |-> << >> ]
  /\ retries = [ c \in Calls |-> 0 ]
  /\ torrents = [ c \in Calls |-> << >> ]
  /\ crawler_open = FALSE
  /\ fetchLog = [ c \in Calls |-> << >> ]
  /\ attemptLog = [ c \in Calls |-> << >> ]

InitFnUnused ==
  /\ texts = << >>
  /\ extracted = NoOutcome
  /\ text = EmptyStr
  /\ max_chars = 0
  /\ parsed = NoParse
  /\ fn_pc = "unused"

Init == InitSearch /\ InitFnUnused

\* ----------------------------------------------------------- scrape_torrents
\* `sources is None or source in sources`
Selected(c, source) == sources[c].is_none \/ source \in sources[c].items

\* the places of the loop still to run a fetch, from idx[c] on
Pending(c) == { i \in idx[c]..Len(WEBSITES) : Selected(c, WEBSITES[i]) }

\* results_list.append(block)
PrependResult(results, block) == << block >> \o results

AppendResult(results, block) == Append(results, block)

\* search_torrents(query, sources, max_retries) is called and runs to
\* scrape_torrents' `async with crawler`
Call(c, Args, Retries) ==
  /\ pc[c] = "idle"
  /\ \E a \in Args, m \in Retries :
       /\ sources' = [ sources EXCEPT ![c] = a ]
       /\ max_retries' = [ max_retries EXCEPT ![c] = m ]
  /\ results_list' = [ results_list EXCEPT ![c] = << >> ]
  /\ pc' = [ pc EXCEPT ![c] = "enter" ]
  /\ UNCHANGED << idx, scraped_results, retries, torrents, crawler_open,
                  fetchLog, attemptLog >>
  /\ UNCHANGED fnVars

\* `async with crawler`: crawler.__aenter__() starts the session
Enter(c) ==
  /\ pc[c] = "enter"
  /\ crawler_open' = TRUE
  /\ idx' = [ idx EXCEPT ![c] = 1 ]
  /\ pc' = [ pc EXCEPT ![c] = "loop" ]
  /\ UNCHANGED << sources, max_retries, results_list, scraped_results, retries,
                  torrents, fetchLog, attemptLog >>
  /\ UNCHANGED fnVars

\* the loop runs to the next selected source and awaits crawler.arun(url)
IssueFetch(c) ==
  /\ pc[c] = "loop"
  /\ Pending(c) # {}
  /\ LET i == CHOOSE j \in Pending(c) : \A k \in Pending(c) : j <= k
     IN  /\ idx' = [ idx EXCEPT ![c] = i ]
         /\ fetchLog' = [ fetchLog EXCEPT ![c] =
              Append(@, [ source |-> WEBSITES[i], status |-> "outstanding",
                          open |-> crawler_open ]) ]
  /\ pc' = [ pc EXCEPT ![c] = "await" ]
  /\ UNCHANGED << sources, max_retries, results_list, scraped_results, retries,
                  torrents, crawler_open, attemptLog >>
  /\ UNCHANGED fnVars

\* crawler.arun returns or raises; a page returned goes through parse_result
\* (which raises on a result without text) and is appended with its tag; an
\* error is caught by `except Exception` and the loop goes on
FetchReturn(c, Pages) ==
  /\ pc[c] = "await"
  /\ \E ok \in BOOLEAN, page \in Pages :
       /\ results_list' = [ results_list EXCEPT ![c] =
            IF ok
              THEN AppendResult(@, Tagged(WEBSITES[idx[c]],
                                          parse_result(page, DefaultMaxChars)))
              ELSE @ ]
       /\ fetchLog' = [ fetchLog EXCEPT ![c][Len(fetchLog[c])].status =
            IF ok THEN "ok" ELSE "failed" ]
  /\ idx' = [ idx EXCEPT ![c] = @ + 1 ]
  /\ pc' = [ pc EXCEPT ![c] = "loop" ]
  /\ UNCHANGED << sources, max_retries, scraped_results, retries, torrents,
                  crawler_open, attemptLog >>
  /\ UNCHANGED fnVars

\* the loop is over: crawler.__aexit__() closes the session, results_list is
\* returned, and search_torrents sets torrents = [] and retries = 0
LeaveScrape(c) ==
  /\ pc[c] = "loop"
  /\ Pending(c) = {}
  /\ crawler_open' = FALSE
  /\ scraped_results' = [ scraped_results EXCEPT ![c] = results_list[c] ]
  /\ torrents' = [ torrents EXCEPT ![c] = << >> ]
  /\ retries' = [ retries EXCEPT ![c] = 0 ]
  /\ pc' = [ pc EXCEPT ![c] = "extract" ]
  /\ UNCHANGED << sources, max_retries, idx, results_list, fetchLog, attemptLog >>
  /\ UNCHANGED fnVars

\* ----------------------------------------------------------- search_torrents
\* `while retries < max_retries`
LoopsOnceMore(c) == retries[c] <= max_retries[c]

Loops(c) == retries[c] < max_retries[c]

\* `except Exception`
CatchesValidationOnly(exc) == exc = "ValidationError"

Catches(exc) == TRUE

\* where the handler leaves the call: back at the loop's test
RetryFromFetch == "enter"

RetryPc == "extract"

\* an Exception raised inside extract_torrents that the texts do not decide
TransientError == "MemoryError"

\* one pass of the loop body: extract_torrents(scraped_results) returns and
\* search_torrents returns its list, or it raises and the handler counts a retry
Attempt(c) ==
  /\ pc[c] = "extract"
  /\ Loops(c)
  /\ \E fault \in BOOLEAN :
       LET r == IF fault
                  THEN [ raised |-> TRUE, exc |-> TransientError, torrents |-> << >> ]
                  ELSE extract_torrents(scraped_results[c])
       IN  /\ attemptLog' = [ attemptLog EXCEPT ![c] =
                Append(@, [ texts |-> scraped_results[c], exc |-> r.exc,
                            result |-> r.torrents ]) ]
           /\ torrents' = [ torrents EXCEPT ![c] =
                IF r.raised THEN @ ELSE r.torrents ]
           /\ retries' = [ retries EXCEPT ![c] =
                IF r.raised /\ Catches(r.exc) THEN @ + 1 ELSE @ ]
           /\ pc' = [ pc EXCEPT ![c] =
                IF ~ r.raised THEN "done"
                ELSE IF Catches(r.exc) THEN RetryPc
                ELSE "raised" ]
  /\ UNCHANGED << sources, max_retries, idx, results_list, scraped_results,
                  crawler_open, fetchLog >>
  /\ UNCHANGED fnVars

\* the loop's test fails: "Exhausted all retries", `return torrents`
ReturnExhausted(c) ==
  /\ pc[c] = "extract"
  /\ ~ Loops(c)
  /\ pc' = [ pc EXCEPT ![c] = "done" ]
  /\ UNCHANGED << sources, max_retries, idx, results_list, scraped_results,
                  retries, torrents, crawler_open, fetchLog, attemptLog >>
  /\ UNCHANGED fnVars

RetriesArgs == 0..MaxRetriesArg

Step(c) ==
  \/ Call(c, SourcesArgs, RetriesArgs)
  \/ Enter(c)
  \/ IssueFetch(c)
  \/ FetchReturn(c, SearchPages)
  \/ LeaveScrape(c)
  \/ Attempt(c)
  \/ ReturnExhausted(c)

\* one search_torrents call
Next == Step(1)

Spec == Init /\ [][Next]_vars

\* ---------------------------------------------- two overlapping search calls
\* what the fetches of two overlapping calls may return
ConcPages == { Table(<< GoodRowA >>) }

ConcArgs == { NoneArg, [ is_none |-> FALSE, items |-> { WEBSITES[1] } ] }

StepConc(c) ==
  \/ Call(c, ConcArgs, { 1 })
  \/ Enter(c)
  \/ IssueFetch(c)
  \/ FetchReturn(c, ConcPages)
  \/ LeaveScrape(c)
  \/ Attempt(c)
  \/ ReturnExhausted(c)

\* the event loop runs either call from one suspension point to its next
NextConc == \E c \in Calls : StepConc(c)

SpecConc == Init /\ [][NextConc]_vars

\* ------------------------------------------------ extract_torrents, alone
\* The argument is built block by block and row by row, as a scrape that lost
\* no source builds it, and extract_torrents is then called on it.
InitExtract ==
  /\ InitSearch
  /\ texts = << >>
  /\ extracted = NoOutcome
  /\ text = EmptyStr
  /\ max_chars = 0
  /\ parsed = NoParse
  /\ fn_pc = "input"

\* the data rows of a list of blocks
RECURSIVE DataRows(_)
DataRows(blocks) ==
  IF blocks = << >> THEN 0
  ELSE LET data == SplitLines(Split1(Head(blocks), NL)[2])
       IN  (IF data = << >> THEN 0 ELSE Len(data) - 1) + DataRows(Tail(blocks))

\* one more block: an empty body, the no-results page or a table's header
AddBlock ==
  /\ fn_pc = "input"
  /\ Len(texts) < MaxBlocks
  /\ \E body \in { EmptyStr, NoResultsPage, HeaderLine } :
       texts' = Append(texts, Tagged(WEBSITES[(Len(texts) % Len(WEBSITES)) + 1], body))
  /\ UNCHANGED << extracted, text, max_chars, parsed, fn_pc >>
  /\ UNCHANGED searchVars

\* one more row under the header of the last block
AddRow ==
  /\ fn_pc = "input"
  /\ texts # << >>
  /\ Prefix(Split1(texts[Len(texts)], NL)[2], Len(HeaderLine)) = HeaderLine
  /\ DataRows(texts) < MaxRows
  /\ \E row \in Rows :
       texts' = [ texts EXCEPT ![Len(texts)] = @ \o << NL >> \o row ]
  /\ UNCHANGED << extracted, text, max_chars, parsed, fn_pc >>
  /\ UNCHANGED searchVars

ExtractCall ==
  /\ fn_pc = "input"
  /\ extracted' = extract_torrents(texts)
  /\ fn_pc' = "returned"
  /\ UNCHANGED << texts, text, max_chars, parsed >>
  /\ UNCHANGED searchVars

NextExtract == AddBlock \/ AddRow \/ ExtractCall

SpecExtract == InitExtract /\ [][NextExtract]_vars

\* --------------------------------------------------- parse_result's cut, alone
Chars == { "a", SP, NL }

InitParse ==
  /\ InitSearch
  /\ texts = << >>
  /\ extracted = NoOutcome
  /\ text \in SeqsUpTo(Chars, MaxLen)
  /\ max_chars \in 0..MaxCharsArg
  /\ parsed = NoParse
  /\ fn_pc = "input"

ParseCall ==
  /\ fn_pc = "input"
  /\ parsed' = [ cut |-> Truncate(text, max_chars),
                 result |-> parse_result(text, max_chars) ]
  /\ fn_pc' = "returned"
  /\ UNCHANGED << texts, extracted, text, max_chars >>
  /\ UNCHANGED searchVars

SpecParse == InitParse /\ [][ParseCall]_vars

\* ===================================================================== claims
\* ------------------------------------------------------------- vocabulary
Max(S) == CHOOSE x \in S : \A y \in S : y <= x

RECURSIVE Concat(_)
Concat(seqs) == IF seqs = << >> THEN << >> ELSE Head(seqs) \o Concat(Tail(seqs))

\* the tag line, the body and the lines of a tagged block
TagLine(block) == Split1(block, NL)[1]
Body(block) == Split1(block, NL)[2]
Lines(block) == SplitLines(Body(block))
HasHeader(block) == Lines(block) # << >>
NRows(block) == Len(Lines(block)) - 1

\* the mapping row k of a block is built into
RowMapping(block, k) ==
  WithSource(ZipDict(Split(Lines(block)[1], SEMI), Split(Lines(block)[k + 1], SEMI)),
             Suffix(TagLine(block), TagLen))

RowBuilds(block, k) == FormatOutcome(RowMapping(block, k)) = "ok"

FieldCount(block, k) == Len(Split(Lines(block)[k], SEMI))

\* row k has another field count than the header, or its record is not built
Malformed(block, k) ==
  FieldCount(block, k + 1) # FieldCount(block, 1) \/ ~ RowBuilds(block, k)

\* the records of the rows of a block that build, in row order; none for a
\* block skipped as "No results" or without a header
BlockRecords(block) ==
  IF SkipsBlock(Body(block)) \/ ~ HasHeader(block) THEN << >>
  ELSE LET all == [ k \in 1..NRows(block) |-> k ]
           kept == SelectSeq(all, LAMBDA k : RowBuilds(block, k))
       IN  [ j \in 1..Len(kept) |-> RowMapping(block, kept[j]) ]

\* the records of a list of blocks, in block order
ListRecords(blocks) == Concat([ b \in 1..Len(blocks) |-> BlockRecords(blocks[b]) ])

\* a block without its row k
WithoutRow(block, k) ==
  LET ls == Lines(block)
  IN  TagLine(block) \o << NL >> \o
      Join(SubSeq(ls, 1, k) \o SubSeq(ls, k + 2, Len(ls)), NL)

Raised(entry) == entry.exc # ""

\* ------------------------------------------------------------------- C7
\* C7: when the text exceeds max_chars, parse_result keeps the prefix that
\* ends just before the last "\n" among the first max_chars characters (so the
\* kept text is whole lines: the character after it is a "\n"); only when the
\* first max_chars characters hold no "\n" does it keep exactly the first
\* max_chars characters; a text within the limit is not cut; and the text
\* returned is never longer than max_chars when a cut was due, nor than the
\* text otherwise.
C7_TruncatesAtLineBoundary ==
  fn_pc = "returned" =>
    LET boundaries == { p \in 1..Min(max_chars, Len(text)) : text[p] = NL }
    IN  /\ Len(text) <= max_chars => parsed.cut = text
        /\ (Len(text) > max_chars /\ boundaries # {}) =>
             /\ parsed.cut = SubSeq(text, 1, Max(boundaries) - 1)
             /\ text[Len(parsed.cut) + 1] = NL
        /\ (Len(text) > max_chars /\ boundaries = {}) =>
             parsed.cut = SubSeq(text, 1, max_chars)
        /\ Len(parsed.cut) <= Min(max_chars, Len(text)) \/ Len(text) <= max_chars
        /\ Len(text) > max_chars => Len(parsed.result) <= max_chars
        /\ Len(parsed.result) <= Len(text)

\* a text over the limit was cut at a line boundary, short of the limit, and
\* lines remain
C7_Witness ==
  /\ fn_pc = "returned"
  /\ Len(text) > max_chars
  /\ \E p \in 1..max_chars : text[p] = NL
  /\ Len(parsed.cut) < max_chars - 1
  /\ Len(parsed.result) >= 2

\* ------------------------------------------------------------------- C8
\* C8: the list extract_torrents returns is exactly the records of the rows
\* that build, block after block in the order of the blocks and row after row
\* in the order of the rows; equal records are all kept.
C8_OutputInInputOrder ==
  (fn_pc = "returned" /\ ~ extracted.raised) =>
    extracted.torrents = ListRecords(texts)

\* two blocks both gave records and two records of the list are equal
C8_Witness ==
  /\ fn_pc = "returned"
  /\ ~ extracted.raised
  /\ Len(texts) = 2
  /\ BlockRecords(texts[1]) # << >>
  /\ BlockRecords(texts[2]) # << >>
  /\ \E i, j \in 1..Len(extracted.torrents) :
       i < j /\ extracted.torrents[i] = extracted.torrents[j]

\* ------------------------------------------------------------------- C6
\* a block cut after its row k
UpToRow(block, k) ==
  TagLine(block) \o << NL >> \o Join(SubSeq(Lines(block), 1, k + 1), NL)

\* list `got` is list `others`, but for one more record at place p
SameButAt(got, others, p) ==
  \/ got = others
  \/ /\ Len(got) = Len(others) + 1
     /\ p \in 1..Len(got)
     /\ SubSeq(got, 1, p - 1) \o SubSeq(got, p + 1, Len(got)) = others

\* the records of the rows other than k are those the block without row k gives
OthersUntouched(block, k, outcome) ==
  /\ ~ outcome.raised
  /\ SameButAt(outcome.torrents,
               extract_torrents(<< WithoutRow(block, k) >>).torrents,
               Len(extract_torrents(<< UpToRow(block, k - 1) >>).torrents) + 1)

\* C6: for a block with a header whose row k has another field count than the
\* header or fails record construction, extract_torrents does not raise and
\* returns, for the rows other than k, the records it returns for the block
\* without row k.
C6_MalformedRowIsolated ==
  (fn_pc = "returned" /\ Len(texts) = 1 /\ HasHeader(texts[1])) =>
    \A k \in 1..NRows(texts[1]) :
      Malformed(texts[1], k) => OthersUntouched(texts[1], k, extracted)

\* the same holds of every block whose body does not hold "No results"
C6_IsolatedUnlessMarker ==
  (fn_pc = "returned" /\ Len(texts) = 1 /\ HasHeader(texts[1])
     /\ ~ SkipsBlock(Body(texts[1]))) =>
    \A k \in 1..NRows(texts[1]) :
      Malformed(texts[1], k) => OthersUntouched(texts[1], k, extracted)

\* ------------------------------------------------------------------- C1
Completed(log) == { i \in 1..Len(log) : ~ Raised(log[i]) }

\* what holds of the attempts of call c whatever max_retries is: at most
\* max_retries of them; an attempt that completes is the last one, ends the
\* call and gives the list returned
AttemptsBounded(c) ==
  LET log == attemptLog[c]
  IN  /\ Len(log) <= (IF max_retries[c] > 0 THEN max_retries[c] ELSE 0)
      /\ \A i \in Completed(log) :
           /\ i = Len(log)
           /\ pc[c] = "done"
           /\ torrents[c] = log[i].result
      /\ (pc[c] = "done" /\ Completed(log) = {}) => torrents[c] = << >>

\* C1, as stated: search_torrents attempts extraction at least once and at
\* most max_retries times, and returns the records of the first attempt that
\* completes, making no attempt after it.
C1_AtLeastOneAttempt ==
  \A c \in Calls :
    /\ AttemptsBounded(c)
    /\ pc[c] = "done" => Len(attemptLog[c]) >= 1

\* C1, amended: at most max_retries attempts whatever max_retries is, at least
\* one when max_retries >= 1 and none when max_retries <= 0 (the empty list is
\* then returned); the records returned are those of the first attempt that
\* completes, and no attempt follows it.
C1_AttemptsWithinMaxRetries ==
  \A c \in Calls :
    /\ AttemptsBounded(c)
    /\ (pc[c] = "done" /\ max_retries[c] >= 1) => Len(attemptLog[c]) >= 1
    /\ (pc[c] = "done" /\ max_retries[c] <= 0) =>
         attemptLog[c] = << >> /\ torrents[c] = << >>

\* max_retries = 3, two attempts raised, the third completed and its records
\* were returned
C1_Witness ==
  /\ pc[1] = "done"
  /\ max_retries[1] = 3
  /\ Len(attemptLog[1]) = 3
  /\ Raised(attemptLog[1][1])
  /\ Raised(attemptLog[1][2])
  /\ ~ Raised(attemptLog[1][3])
  /\ torrents[1] # << >>
  /\ torrents[1] = attemptLog[1][3].result

\* ------------------------------------------------------------------- C2
\* C2: no error of an extraction attempt leaves search_torrents; the retry
\* counter counts the attempts that raised and never passes max_retries, so the
\* loop ends; and a call with max_retries >= 1 all of whose attempts raised
\* returns the empty list after max_retries attempts.
C2_AllAttemptsRaiseGivesEmpty ==
  \A c \in Calls :
    /\ pc[c] # "raised"
    /\ retries[c] <= (IF max_retries[c] > 0 THEN max_retries[c] ELSE 0)
    /\ pc[c] = "extract" => retries[c] = Len(attemptLog[c])
    /\ (pc[c] = "done" /\ max_retries[c] >= 1
          /\ \A i \in 1..Len(attemptLog[c]) : Raised(attemptLog[c][i])) =>
         /\ torrents[c] = << >>
         /\ Len(attemptLog[c]) = max_retries[c]

\* a call whose every attempt failed on the texts themselves returned empty
C2_Witness ==
  /\ pc[1] = "done"
  /\ max_retries[1] >= 2
  /\ Len(attemptLog[1]) = max_retries[1]
  /\ \A i \in 1..Len(attemptLog[1]) : attemptLog[1][i].exc = "IndexError"
  /\ torrents[1] = << >>

\* ------------------------------------------------------------------- C3
\* the crawler.arun calls call c made for a source
Fetches(c, source) ==
  Cardinality({ i \in 1..Len(fetchLog[c]) : fetchLog[c][i].source = source })

Scraped(c) == pc[c] \in { "extract", "done", "raised" }

\* C3: no source is fetched twice; once an extraction attempt was made the
\* call is past its fetches, each selected source of the registry having been
\* fetched once and no other source at all; and every attempt was given the
\* same texts, those the one scrape returned.
C3_FetchOnceThenRetryOnSameTexts ==
  \A c \in Calls :
    /\ \A s \in Registered : Fetches(c, s) <= 1
    /\ attemptLog[c] # << >> => Scraped(c)
    /\ Scraped(c) =>
         /\ \A s \in Registered :
              Fetches(c, s) = (IF Selected(c, s) THEN 1 ELSE 0)
         /\ \A i \in 1..Len(fetchLog[c]) : fetchLog[c][i].status # "outstanding"
         /\ scraped_results[c] = results_list[c]
    /\ \A i \in 1..Len(attemptLog[c]) :
         attemptLog[c][i].texts = scraped_results[c]

\* two sources were fetched and extraction was retried twice on their texts
C3_Witness ==
  /\ Len(fetchLog[1]) = 2
  /\ Len(scraped_results[1]) = 2
  /\ Len(attemptLog[1]) = 3
  /\ Raised(attemptLog[1][1])
  /\ Raised(attemptLog[1][2])

\* ------------------------------------------------------------------- C4
\* the sources whose fetch succeeded, in the order of the calls
OkSources(c) ==
  LET ok == SelectSeq(fetchLog[c], LAMBDA e : e.status = "ok")
  IN  [ i \in 1..Len(ok) |-> ok[i].source ]

\* the place of a source in the registry
Place(source) == CHOOSE i \in 1..Len(WEBSITES) : WEBSITES[i] = source

\* C4: the results hold one block for each source whose fetch and
\* normalization succeeded, tagged with it, in registry order, and none for a
\* source that failed; a failure does not stop the loop: when scrape_torrents
\* returns, every selected source of the registry was tried.
C4_OneBlockPerSucceededSource ==
  \A c \in Calls :
    /\ Len(results_list[c]) = Len(OkSources(c))
    /\ \A i \in 1..Len(results_list[c]) :
         TagLine(results_list[c][i]) = TagPrefix \o << OkSources(c)[i] >>
    /\ \A i, j \in 1..Len(OkSources(c)) :
         i < j => Place(OkSources(c)[i]) < Place(OkSources(c)[j])
    /\ Scraped(c) =>
         /\ \A s \in Registered : Selected(c, s) => Fetches(c, s) >= 1
         /\ scraped_results[c] = results_list[c]

\* the second of three sources failed and the other two gave their blocks
C4_Witness ==
  /\ pc[1] = "extract"
  /\ Len(fetchLog[1]) = 3
  /\ fetchLog[1][1].status = "ok"
  /\ fetchLog[1][2].status = "failed"
  /\ fetchLog[1][3].status = "ok"
  /\ Len(scraped_results[1]) = 2

\* ------------------------------------------------------------------- C5
NamesUnknownSource(c) ==
  ~ sources[c].is_none /\ ~ (sources[c].items \subseteq Registered)

\* C5: a call whose sources name a source that is not in the registry does not
\* return a list as a search without results does: it signals the unknown
\* source.  Stated of the calls with max_retries >= 1, whose return follows an
\* extraction attempt.
C5_UnknownSourceSignalled ==
  \A c \in Calls :
    (NamesUnknownSource(c) /\ max_retries[c] >= 1) => pc[c] # "done"

\* ------------------------------------------------------------------- C9
\* C9: extract_torrents does not raise on a list of blocks scrape_torrents
\* returned, an empty body among them included, so a call that made an attempt
\* which no transient error hit returns the records of the blocks that have
\* them.
C9_EmptyBodyDoesNotLoseOtherSources ==
  \A c \in Calls :
    /\ \A i \in 1..Len(attemptLog[c]) :
         attemptLog[c][i].exc \in { "", TransientError }
    /\ (pc[c] = "done" /\ attemptLog[c] # << >>
          /\ \A i \in 1..Len(attemptLog[c]) :
               attemptLog[c][i].exc # TransientError) =>
         torrents[c] = ListRecords(scraped_results[c])

\* ------------------------------------------------------------------ C10
\* a call with a fetch outstanding or still to issue
HasFetchWork(c) == pc[c] = "await" \/ (pc[c] = "loop" /\ Pending(c) # {})

\* C10: the crawler's session is open whenever a call has a fetch outstanding
\* or still to issue, and was open when each fetch was issued: no call closes
\* it under another.
C10_SessionOpenDuringFetches ==
  \A c \in Calls :
    /\ HasFetchWork(c) => crawler_open
    /\ \A i \in 1..Len(fetchLog[c]) : fetchLog[c][i].open

====
